---- MODULE Spec2Model ----
(***************************************************************************)
(* cli_tool.py (day5/Master_4326_vs_3857): a command line client that      *)
(* keeps points in two PostGIS tables, locations_4326 (WGS84 lon/lat) and  *)
(* locations_3857 (Web Mercator x/y).                                      *)
(*                                                                         *)
(* Every command opens its own psycopg2 connection (autocommit off, the    *)
(* server's default READ COMMITTED isolation), runs its statements in one  *)
(* transaction and closes the connection in a finally block.  The model    *)
(* has one step per cur.execute / conn.commit / conn.rollback / close, run *)
(* by NumProcs concurrent clients against one store.  The store is the     *)
(* PostgreSQL the code talks to: statements see committed rows plus the    *)
(* transaction's own, DDL is transactional, DROP TABLE needs an exclusive  *)
(* table lock, SERIAL values are not given back by a rollback, and any     *)
(* statement may fail with a psycopg2.Error.                               *)
(* The created_at column is never read by the program and is left out.     *)
(***************************************************************************)
EXTENDS Integers, Sequences, FiniteSets, TLC

\* Bounds of the model.
NumProcs == 2
MaxId == 2

Procs == 1..NumProcs
Tables == {"4326", "3857"}
\* The (name, lon, lat) a point is added with, in whole degrees: Paris and
\* New York rounded, and a latitude beyond the Web Mercator band of
\* +-85.05112878.
AddArgs == {<<"a", 2, 49>>, <<"b", -74, 41>>, <<"b", 0, 86>>}
\* The srid_type of list: the three the function knows, and any other string.
SridTypes == {"4326", "3857", "all", "other"}
PointIds == 1..MaxId

\* db, serial: the store (committed state; the tables' SERIAL sequences).
\* Per client: pc (the statement it is at), op and arg (the command), conn,
\* tx and locks (its connection, open transaction and table locks), local
\* (the function's local variables), printed (the last message) and exit
\* (how the call ended).
VARIABLES db, serial, pc, op, arg, conn, tx, locks, local, printed, exit

\* History: the committed state when the latest command began or ended.  With
\* one client it is the state the running command found, so that the state a
\* call leaves can be compared with it.
VARIABLE pre

vars == <<db, serial, pc, op, arg, conn, tx, locks, local, printed, exit, pre>>

\* ------------------------------------------------------------ PostGIS

\* ST_SetSRID(ST_MakePoint(lon, lat), 4326): no range check is made.
MakePoint4326(lon, lat) == <<4326, lon, lat>>

\* Web Mercator northing in whole metres, R * ln(tan(pi/4 + lat*pi/360)) with
\* R = 6378137, tabulated for the latitudes of AddArgs.
MercatorY(lat) ==
    CASE lat = 41 -> 5012341
      [] lat = 49 -> 6274861
      [] lat = 86 -> 21396567

\* ST_Transform(geom, 3857): x = lon * 20037508.34 / 180 in whole metres.
\* PROJ projects every latitude short of the poles; 86 degrees is not refused.
ST_Transform3857(g) == <<3857, (g[2] * 20037508) \div 180, MercatorY(g[3])>>

ST_AsText(g) == <<"POINT", g[2], g[3]>>
ST_X(g) == g[2]
ST_Y(g) == g[3]

\* ------------------------------------------------------------ the store

\* A database without the extension and without the tables.
EmptyStore == [postgis |-> FALSE, exists |-> {}, rows |-> [t \in Tables |-> {}]]

NoTx == [postgis |-> FALSE, created |-> {}, ins |-> [t \in Tables |-> {}]]
NoLocks == [t \in Tables |-> "none"]
NoArg == [name |-> "", lon |-> 0, lat |-> 0, srid_type |-> "", point_id |-> 0]
NoLocal == [point_id_4326 |-> 0, point_id_3857 |-> 0,
            rows_4326 |-> <<>>, rows_3857 |-> <<>>, row |-> <<>>]

\* A table is usable by p unless another transaction holds it exclusively
\* (an uncommitted DROP/CREATE); DROP TABLE waits for every other holder.
CanUse(p, t) == \A q \in Procs \ {p} : locks[q][t] # "excl"
CanDrop(p, t) == \A q \in Procs \ {p} : locks[q][t] = "none"

HasPostgis(p) == db.postgis \/ tx[p].postgis
TableExists(p, t) == t \in tx[p].created \/ t \in db.exists

\* What a statement of p's transaction sees of table t: the committed rows
\* (none of a table the transaction has recreated) and its own inserts.
VisibleRows(p, t) ==
    (IF t \in tx[p].created THEN {} ELSE db.rows[t]) \cup tx[p].ins[t]

\* conn.commit(): the transaction's writes become the committed state at once.
Committed(d, x) ==
    [postgis |-> d.postgis \/ x.postgis,
     exists |-> d.exists \cup x.created,
     rows |-> [t \in Tables |->
                 (IF t \in x.created THEN {} ELSE d.rows[t]) \cup x.ins[t]]]

\* A recreated table owns a new SERIAL sequence, which starts at 1.
SerialAfter(s, x) == [t \in Tables |-> IF t \in x.created THEN 1 ELSE s[t]]

\* The result of a SELECT without ORDER BY: the rows in any order.
Orderings(S) ==
    {s \in [1..Cardinality(S) -> S] : \A r \in S : \E i \in DOMAIN s : s[i] = r}

\* ------------------------------------------------------------ steps

\* A statement raises psycopg2.Error: control goes to the except clause.
Raise(p) ==
    /\ pc' = [pc EXCEPT ![p] = "except"]
    /\ UNCHANGED <<db, serial, op, arg, conn, tx, locks, local, printed, exit, pre>>

FirstStep(command, a) ==
    CASE command = "init_db" -> "ext"
      [] command = "add" -> "ins4326"
      [] command = "list" ->
            IF a.srid_type \in {"4326", "all"} THEN "sel4326"
            ELSE IF a.srid_type = "3857" THEN "sel3857" ELSE "finally"
      [] command = "transform" -> "select"

\* A command starts (main's dispatch) and the function's first line,
\* get_db_connection(), runs: a connection of the call's own, or the message
\* and sys.exit(1).
get_db_connection(p, command, a) ==
    /\ pc[p] = "idle"
    /\ op' = [op EXCEPT ![p] = command]
    /\ arg' = [arg EXCEPT ![p] = a]
    /\ \/ /\ conn' = [conn EXCEPT ![p] = "open"]
          /\ pc' = [pc EXCEPT ![p] = FirstStep(command, a)]
          /\ UNCHANGED <<printed, exit>>
       \/ /\ printed' = [printed EXCEPT ![p] = "error"]
          /\ exit' = [exit EXCEPT ![p] = "SystemExit"]
          /\ pc' = [pc EXCEPT ![p] = "done"]
          /\ UNCHANGED conn
    /\ pre' = db
    /\ UNCHANGED <<db, serial, tx, locks, local>>

main_init_db(p) == get_db_connection(p, "init_db", NoArg)

main_add(p) ==
    \E a \in AddArgs :
        get_db_connection(p, "add", [NoArg EXCEPT !.name = a[1], !.lon = a[2], !.lat = a[3]])

main_list(p) ==
    \E w \in SridTypes : get_db_connection(p, "list", [NoArg EXCEPT !.srid_type = w])

main_transform(p) ==
    \E i \in PointIds : get_db_connection(p, "transform", [NoArg EXCEPT !.point_id = i])

\* conn.close() at the end of the try body instead of in a finally clause: a
\* call that failed keeps its connection.
CloseInTryBody(p) ==
    /\ pc[p] = "finally"
    /\ conn' = [conn EXCEPT ![p] =
                   IF printed[p] = "error" \/ exit[p] # "none" THEN @ ELSE "closed"]
    /\ tx' = [tx EXCEPT ![p] = NoTx]
    /\ locks' = [locks EXCEPT ![p] = NoLocks]
    /\ exit' = [exit EXCEPT ![p] = IF @ = "none" THEN "return" ELSE @]
    /\ pc' = [pc EXCEPT ![p] = "done"]
    /\ UNCHANGED <<db, serial, op, arg, local, printed, pre>>

\* finally: cur.close(); conn.close().  Closing discards an open transaction.
Close(p) ==
    /\ pc[p] = "finally"
    /\ conn' = [conn EXCEPT ![p] = "closed"]
    /\ tx' = [tx EXCEPT ![p] = NoTx]
    /\ locks' = [locks EXCEPT ![p] = NoLocks]
    /\ exit' = [exit EXCEPT ![p] = IF @ = "none" THEN "return" ELSE @]
    /\ pc' = [pc EXCEPT ![p] = "done"]
    /\ UNCHANGED <<db, serial, op, arg, local, printed, pre>>

\* The command has ended and with it the process that ran it; the client is
\* free to run the next command, which starts from nothing.
Return(p) ==
    /\ pc[p] = "done"
    /\ pc' = [pc EXCEPT ![p] = "idle"]
    /\ op' = [op EXCEPT ![p] = "none"]
    /\ arg' = [arg EXCEPT ![p] = NoArg]
    /\ conn' = [conn EXCEPT ![p] = "none"]
    /\ local' = [local EXCEPT ![p] = NoLocal]
    /\ printed' = [printed EXCEPT ![p] = "none"]
    /\ exit' = [exit EXCEPT ![p] = "none"]
    /\ pre' = db
    /\ UNCHANGED <<db, serial, tx, locks>>

\* A handler that calls conn.commit() where conn.rollback() belongs.
HandlerCommits(p) ==
    /\ pc[p] = "except"
    /\ pc' = [pc EXCEPT ![p] = "finally"]
    /\ db' = Committed(db, tx[p])
    /\ tx' = [tx EXCEPT ![p] = NoTx]
    /\ locks' = [locks EXCEPT ![p] = NoLocks]
    /\ printed' = [printed EXCEPT ![p] = "error"]
    /\ UNCHANGED <<serial, op, arg, conn, local, exit, pre>>

\* except psycopg2.Error: conn.rollback(), then the message.  A rollback that
\* itself raises (the connection is gone) leaves the handler without printing.
RollbackAndReport(p) ==
    /\ pc[p] = "except"
    /\ pc' = [pc EXCEPT ![p] = "finally"]
    /\ \/ /\ tx' = [tx EXCEPT ![p] = NoTx]
          /\ locks' = [locks EXCEPT ![p] = NoLocks]
          /\ printed' = [printed EXCEPT ![p] = "error"]
          /\ UNCHANGED exit
       \/ /\ exit' = [exit EXCEPT ![p] = "psycopg2.Error"]
          /\ UNCHANGED <<tx, locks, printed>>
    /\ UNCHANGED <<db, serial, op, arg, conn, local, pre>>

\* except psycopg2.Error: the message only.
Report(p) ==
    /\ pc[p] = "except"
    /\ pc' = [pc EXCEPT ![p] = "finally"]
    /\ printed' = [printed EXCEPT ![p] = "error"]
    /\ UNCHANGED <<db, serial, op, arg, conn, tx, locks, local, exit, pre>>

\* ---- init_db

init_db_extension(p) ==
    /\ op[p] = "init_db" /\ pc[p] = "ext"
    /\ \/ /\ tx' = [tx EXCEPT ![p].postgis = TRUE]
          /\ pc' = [pc EXCEPT ![p] = "t4326"]
          /\ UNCHANGED <<db, serial, op, arg, conn, locks, local, printed, exit, pre>>
       \/ Raise(p)

\* CREATE TABLE IF NOT EXISTS t (...) without the DROP: an existing table is
\* kept with its rows.
CreateIfNotExists(p, t, next) ==
    \/ /\ CanUse(p, t)
       /\ locks' = [locks EXCEPT ![p][t] = IF TableExists(p, t) THEN "use" ELSE "excl"]
       /\ tx' = [tx EXCEPT ![p].created =
                    IF TableExists(p, t) THEN @ ELSE @ \cup {t}]
       /\ pc' = [pc EXCEPT ![p] = next]
       /\ UNCHANGED <<db, serial, op, arg, conn, local, printed, exit, pre>>
    \/ Raise(p)

\* The same execute on a connection in autocommit mode: the DROP/CREATE is
\* committed as soon as it has run.
DropCreateAutocommit(p, t, next) ==
    \/ /\ CanDrop(p, t)
       /\ db' = Committed(db, [tx[p] EXCEPT !.created = @ \cup {t}])
       /\ serial' = [serial EXCEPT ![t] = 1]
       /\ tx' = [tx EXCEPT ![p] = NoTx]
       /\ pc' = [pc EXCEPT ![p] = next]
       /\ UNCHANGED <<op, arg, conn, locks, local, printed, exit, pre>>
    \/ Raise(p)

\* DROP TABLE IF EXISTS t; CREATE TABLE t (...): one execute.
DropCreate(p, t, next) ==
    \/ /\ CanDrop(p, t)
       /\ locks' = [locks EXCEPT ![p][t] = "excl"]
       /\ tx' = [tx EXCEPT ![p].created = @ \cup {t}, ![p].ins[t] = {}]
       /\ pc' = [pc EXCEPT ![p] = next]
       /\ UNCHANGED <<db, serial, op, arg, conn, local, printed, exit, pre>>
    \/ Raise(p)

init_db_table_4326(p) ==
    /\ op[p] = "init_db" /\ pc[p] = "t4326"
    /\ DropCreate(p, "4326", "t3857")

init_db_table_3857(p) ==
    /\ op[p] = "init_db" /\ pc[p] = "t3857"
    /\ DropCreate(p, "3857", "commit")

\* conn.commit() of p's transaction, and the message that follows it.
Commit(p) ==
    \/ /\ db' = Committed(db, tx[p])
       /\ serial' = SerialAfter(serial, tx[p])
       /\ tx' = [tx EXCEPT ![p] = NoTx]
       /\ locks' = [locks EXCEPT ![p] = NoLocks]
       /\ printed' = [printed EXCEPT ![p] = "complete"]
       /\ pc' = [pc EXCEPT ![p] = "finally"]
       /\ UNCHANGED <<op, arg, conn, local, exit, pre>>
    \/ Raise(p)

init_db_commit(p) ==
    /\ op[p] = "init_db" /\ pc[p] = "commit"
    /\ Commit(p)

init_db_except(p) == op[p] = "init_db" /\ RollbackAndReport(p)

init_db_finally(p) == op[p] = "init_db" /\ Close(p)

\* ---- add_point

\* INSERT INTO locations_<t> (name, geom) VALUES (...) RETURNING id; fetchone()[0]
\* The id is the sequence's next value, which a rollback does not give back.
\* The model hands out no id beyond MaxId: from there on the insert only fails.
Insert(p, t, g, idvar, next) ==
    \/ /\ HasPostgis(p) /\ TableExists(p, t) /\ CanUse(p, t)
       /\ serial[t] <= MaxId
       /\ tx' = [tx EXCEPT ![p].ins[t] =
                    @ \cup {[id |-> serial[t], name |-> arg[p].name, geom |-> g]}]
       /\ serial' = [serial EXCEPT ![t] = @ + 1]
       /\ locks' = [locks EXCEPT ![p][t] = IF @ = "none" THEN "use" ELSE @]
       /\ local' = [local EXCEPT ![p][idvar] = serial[t]]
       /\ pc' = [pc EXCEPT ![p] = next]
       /\ UNCHANGED <<db, op, arg, conn, printed, exit, pre>>
    \/ Raise(p)

add_point_insert_4326(p) ==
    /\ op[p] = "add" /\ pc[p] = "ins4326"
    /\ Insert(p, "4326", MakePoint4326(arg[p].lon, arg[p].lat),
              "point_id_4326", "ins3857")

\* The mirror insert with ST_SetSRID(..., 3857) where ST_Transform belongs: the
\* degrees are relabelled, not projected.
add_point_insert_3857_relabelled(p) ==
    /\ op[p] = "add" /\ pc[p] = "ins3857"
    /\ Insert(p, "3857", <<3857, arg[p].lon, arg[p].lat>>,
              "point_id_3857", "commit")

add_point_insert_3857(p) ==
    /\ op[p] = "add" /\ pc[p] = "ins3857"
    /\ Insert(p, "3857", ST_Transform3857(MakePoint4326(arg[p].lon, arg[p].lat)),
              "point_id_3857", "commit")

add_point_commit(p) ==
    /\ op[p] = "add" /\ pc[p] = "commit"
    /\ Commit(p)

add_point_except(p) == op[p] = "add" /\ RollbackAndReport(p)

add_point_finally(p) == op[p] = "add" /\ Close(p)

\* ---- list_points

\* SELECT id, name, ST_AsText(geom) FROM locations_<t>; fetchall()
Select(p, t, rowsvar, next) ==
    \/ /\ HasPostgis(p) /\ TableExists(p, t) /\ CanUse(p, t)
       /\ \E s \in Orderings(VisibleRows(p, t)) :
             local' = [local EXCEPT ![p][rowsvar] =
                          [i \in DOMAIN s |->
                              <<s[i].id, s[i].name, ST_AsText(s[i].geom)>>]]
       /\ locks' = [locks EXCEPT ![p][t] = IF @ = "none" THEN "use" ELSE @]
       /\ printed' = [printed EXCEPT ![p] = "listed"]
       /\ pc' = [pc EXCEPT ![p] = next]
       /\ UNCHANGED <<db, serial, op, arg, conn, tx, exit, pre>>
    \/ Raise(p)

list_points_select_4326(p) ==
    /\ op[p] = "list" /\ pc[p] = "sel4326"
    /\ Select(p, "4326", "rows_4326",
              IF arg[p].srid_type = "all" THEN "sel3857" ELSE "finally")

list_points_select_3857(p) ==
    /\ op[p] = "list" /\ pc[p] = "sel3857"
    /\ Select(p, "3857", "rows_3857", "finally")

list_points_except(p) == op[p] = "list" /\ Report(p)

list_points_finally(p) == op[p] = "list" /\ Close(p)

\* ---- transform_and_display

\* The query without ST_Transform in its x_3857 and y_3857 columns.
TransformRowUnprojected(rows, i) ==
    IF \E r \in rows : r.id = i
    THEN LET r == CHOOSE r \in rows : r.id = i
         IN <<r.name, ST_AsText(r.geom), ST_X(r.geom), ST_Y(r.geom),
              ST_AsText(r.geom), ST_X(r.geom), ST_Y(r.geom)>>
    ELSE <<>>

\* The row fetchone() returns for SELECT ... FROM locations_4326 WHERE id = i:
\* <<>> (None) when there is none.
TransformRow(rows, i) ==
    IF \E r \in rows : r.id = i
    THEN LET r == CHOOSE r \in rows : r.id = i
             m == ST_Transform3857(r.geom)
         IN <<r.name, ST_AsText(r.geom), ST_X(r.geom), ST_Y(r.geom),
              ST_AsText(m), ST_X(m), ST_Y(m)>>
    ELSE <<>>

transform_and_display_select(p) ==
    /\ op[p] = "transform" /\ pc[p] = "select"
    /\ \/ /\ HasPostgis(p) /\ TableExists(p, "4326") /\ CanUse(p, "4326")
          /\ LET row == TransformRow(VisibleRows(p, "4326"), arg[p].point_id)
             IN /\ local' = [local EXCEPT ![p].row = row]
                /\ printed' = [printed EXCEPT ![p] =
                                  IF row # <<>> THEN "view" ELSE "not found"]
          /\ locks' = [locks EXCEPT ![p]["4326"] = IF @ = "none" THEN "use" ELSE @]
          /\ pc' = [pc EXCEPT ![p] = "finally"]
          /\ UNCHANGED <<db, serial, op, arg, conn, tx, exit, pre>>
       \/ Raise(p)

transform_and_display_except(p) == op[p] = "transform" /\ Report(p)

transform_and_display_finally(p) == op[p] = "transform" /\ Close(p)

\* ------------------------------------------------------------ the system

\* A fresh database: no extension, no tables; every client between commands.
Init ==
    /\ db = EmptyStore
    /\ serial = [t \in Tables |-> 1]
    /\ pc = [p \in Procs |-> "idle"]
    /\ op = [p \in Procs |-> "none"]
    /\ arg = [p \in Procs |-> NoArg]
    /\ conn = [p \in Procs |-> "none"]
    /\ tx = [p \in Procs |-> NoTx]
    /\ locks = [p \in Procs |-> NoLocks]
    /\ local = [p \in Procs |-> NoLocal]
    /\ printed = [p \in Procs |-> "none"]
    /\ exit = [p \in Procs |-> "none"]
    /\ pre = EmptyStore

\* One step of client p.
Step(p) ==
    \/ main_init_db(p) \/ main_add(p) \/ main_list(p) \/ main_transform(p)
    \/ Return(p)
    \/ init_db_extension(p) \/ init_db_table_4326(p) \/ init_db_table_3857(p)
    \/ init_db_commit(p) \/ init_db_except(p) \/ init_db_finally(p)
    \/ add_point_insert_4326(p) \/ add_point_insert_3857(p)
    \/ add_point_commit(p) \/ add_point_except(p) \/ add_point_finally(p)
    \/ list_points_select_4326(p) \/ list_points_select_3857(p)
    \/ list_points_except(p) \/ list_points_finally(p)
    \/ transform_and_display_select(p) \/ transform_and_display_except(p) \/ transform_and_display_finally(p)

\* The clients run their commands concurrently against the one store.
Next == \E p \in Procs : Step(p)

Spec == Init /\ [][Next]_vars

\* One client alone: the commands run one after the other.
SeqNext == Step(1)

SeqSpec == Init /\ [][SeqNext]_vars

\* ------------------------------------------------------------ properties

\* The store after a successful init_db: the extension, both tables, no rows.
EmptySchema == [postgis |-> TRUE, exists |-> Tables, rows |-> [t \in Tables |-> {}]]

\* What a primary row's mirror row must carry: its name and its projection.
MirrorKey(r) == <<r.name, ST_Transform3857(r.geom)>>
OwnKey(m) == <<m.name, m.geom>>

\* The latitudes the projection is specified for, in whole degrees.
Projectable(lat) == lat >= -85 /\ lat <= 85

Failed(p) == printed[p] = "error" \/ exit[p] = "psycopg2.Error"

\* C1: add_point is all or nothing.  With one client, at every point of a call
\* of add_point and after it: unless the call has committed, the committed
\* store is the one the call found; once it has committed, each table holds
\* the rows it held before and exactly one more, the call's.
AddPointAllOrNothing ==
    \A p \in Procs : op[p] = "add" =>
        IF printed[p] = "complete"
        THEN /\ db.postgis = pre.postgis /\ db.exists = pre.exists
             /\ \A t \in Tables :
                   /\ pre.rows[t] \subseteq db.rows[t]
                   /\ Cardinality(db.rows[t] \ pre.rows[t]) = 1
             /\ db.rows["4326"] \ pre.rows["4326"] =
                   {[id |-> local[p].point_id_4326, name |-> arg[p].name,
                     geom |-> <<4326, arg[p].lon, arg[p].lat>>]}
             /\ \A m \in db.rows["3857"] \ pre.rows["3857"] :
                   m.id = local[p].point_id_3857 /\ m.name = arg[p].name
        ELSE db = pre

\* A call whose mirror insert failed after its primary insert had returned an
\* id has ended, over a store that already held a point.
AddPointFailedAfterPrimaryInsert ==
    \E p \in Procs :
        /\ op[p] = "add" /\ pc[p] = "done" /\ Failed(p)
        /\ local[p].point_id_4326 # 0 /\ local[p].point_id_3857 = 0
        /\ db.rows["4326"] # {}

\* C2: correspondence.  In every committed state the mirror table holds, for
\* each primary row, as many rows of its name and projection as the primary
\* table holds rows of that name and position, and no other row.
Correspondence ==
    LET P == db.rows["4326"]
        M == db.rows["3857"]
    IN /\ \A r \in P :
             Cardinality({m \in M : OwnKey(m) = MirrorKey(r)})
                = Cardinality({q \in P : MirrorKey(q) = MirrorKey(r)})
       /\ \A m \in M : \E r \in P : MirrorKey(r) = OwnKey(m)
       /\ Cardinality(P) = Cardinality(M)

\* The same point has been added twice: two primary rows of one name and
\* position, after an add_point that committed.
CorrespondenceOfTwinPoints ==
    /\ \E r \in db.rows["4326"], q \in db.rows["4326"] :
          r # q /\ MirrorKey(r) = MirrorKey(q)
    /\ \E p \in Procs : op[p] = "add" /\ pc[p] = "done" /\ printed[p] = "complete"

\* C3: a latitude outside the projectable band is rejected: no insert is
\* issued for it, the store stays as it was, and the call does not end as a
\* successful one.
OutOfRangeRejected ==
    \A p \in Procs :
        (op[p] = "add" /\ ~Projectable(arg[p].lat)) =>
            /\ local[p].point_id_4326 = 0 /\ local[p].point_id_3857 = 0
            /\ db = pre
            /\ pc[p] = "done" => exit[p] # "return"

\* C4: a reader never sees a record of one table without its partner in the
\* other: what list_points("all") has listed of the two tables corresponds.
ReaderSeesPairs ==
    \A p \in Procs :
        (op[p] = "list" /\ arg[p].srid_type = "all"
            /\ pc[p] = "done" /\ printed[p] = "listed") =>
            LET P == local[p].rows_4326
                M == local[p].rows_3857
                Mirror(i) == <<P[i][2],
                               ST_AsText(ST_Transform3857(
                                   <<4326, P[i][3][2], P[i][3][3]>>))>>
                Own(j) == <<M[j][2], M[j][3]>>
            IN /\ Len(P) = Len(M)
               /\ \A i \in DOMAIN P :
                     Cardinality({j \in DOMAIN M : Own(j) = Mirror(i)})
                        = Cardinality({k \in DOMAIN P : Mirror(k) = Mirror(i)})

\* C5: init_db is an idempotent destructive reset.  Whatever the store held,
\* a call of init_db that has committed leaves the extension, both tables
\* without a row and their id sequences at 1; so does a second call.
InitializeResets ==
    \A p \in Procs :
        (op[p] = "init_db" /\ printed[p] = "complete") =>
            db = EmptySchema /\ serial = [t \in Tables |-> 1]

\* A second init_db in succession has committed: the store it found was
\* already the empty schema.
InitializeTwice ==
    \E p \in Procs :
        /\ op[p] = "init_db" /\ pc[p] = "done" /\ printed[p] = "complete"
        /\ pre = EmptySchema

\* C6: a failing init_db leaves no partial schema.  With one client, unless
\* the call has committed, the committed store is the one it found, at every
\* point of the call and after it; and a call that has ended without
\* committing has reported it, by its message or by the exception it raised.
InitializeFailureLeavesStore ==
    \A p \in Procs :
        (op[p] = "init_db" /\ printed[p] # "complete") =>
            /\ db = pre
            /\ pc[p] = "done" => Failed(p)

\* init_db has failed over a store holding points, after its transaction had
\* dropped and recreated the primary table only.
InitializeFailedHalfWay ==
    \E p \in Procs :
        /\ op[p] = "init_db" /\ pc[p] = "finally" /\ Failed(p)
        /\ tx[p].created = {"4326"}
        /\ db.rows["4326"] # {} /\ db.rows["3857"] # {}

\* C7: transform_and_display reads the primary table only.  A call whose query
\* succeeded reports "not found" exactly when no primary row has the id, and
\* otherwise holds that row's name and position with their projection computed
\* from them; it ends by a normal return, and no call changes the store.
TransformReadsPrimaryOnly ==
    \A p \in Procs : op[p] = "transform" =>
        /\ db = pre
        /\ printed[p] \in {"view", "not found"} =>
              LET hits == {r \in db.rows["4326"] : r.id = arg[p].point_id}
              IN /\ (hits = {}) <=> (printed[p] = "not found")
                 /\ (hits = {}) => local[p].row = <<>>
                 /\ \A r \in hits :
                       LET m == ST_Transform3857(r.geom)
                       IN local[p].row =
                            <<r.name, <<"POINT", r.geom[2], r.geom[3]>>,
                              r.geom[2], r.geom[3],
                              <<"POINT", m[2], m[3]>>, m[2], m[3]>>
                 /\ pc[p] = "done" => exit[p] = "return"

\* A primary row has been shown whose id no mirror row carries.
TransformShownWithoutMirrorId ==
    \E p \in Procs :
        /\ op[p] = "transform" /\ pc[p] = "done" /\ printed[p] = "view"
        /\ ~ \E m \in db.rows["3857"] : m.id = arg[p].point_id

\* C8: a StorageError caught inside an operation is signalled again: a call
\* that has reported an error does not end by a normal return.
StorageErrorResignalled ==
    \A p \in Procs : (pc[p] = "done" /\ printed[p] = "error") => exit[p] # "return"

\* C9: list_points returns the records of each table it lists in ascending
\* order of id.
ListOrderedById ==
    \A p \in Procs :
        (op[p] = "list" /\ pc[p] = "done" /\ printed[p] = "listed") =>
            /\ \A i, j \in DOMAIN local[p].rows_4326 :
                  i < j => local[p].rows_4326[i][1] < local[p].rows_4326[j][1]
            /\ \A i, j \in DOMAIN local[p].rows_3857 :
                  i < j => local[p].rows_3857[i][1] < local[p].rows_3857[j][1]

\* C10: every call releases what it acquired.  A client between commands, or
\* whose command has ended whichever way, holds no open connection, no
\* transaction and no lock; a connection is open only inside the call that
\* opened it.
ConnectionReleased ==
    \A p \in Procs :
        pc[p] \in {"idle", "done"} =>
            conn[p] # "open" /\ tx[p] = NoTx /\ locks[p] = NoLocks

\* A call has ended by the exception its rollback raised, with a row of its
\* transaction never committed, and its connection is closed.
ClosedAfterRaisingRollback ==
    \E p \in Procs :
        /\ pc[p] = "done" /\ exit[p] = "psycopg2.Error"
        /\ local[p].point_id_4326 # 0
        /\ conn[p] = "closed"

====
